---- MODULE Spec2Model ----
(***************************************************************************)
(* Channel loader, blend/opacity controller and annotation toggles of the  *)
(* omics_browser deep-zoom viewer (src/unnamed/part_000 and                *)
(* src/examples/deepzoom/static/button_control.js) as a state machine.     *)
(*                                                                         *)
(* The JavaScript event loop runs one handler or callback at a time, so    *)
(* every handler is one atomic action.  The tile loads started by          *)
(* viewer.addTiledImage and the $.getJSON requests are in flight between   *)
(* the action that issues them and the action of their callback; they      *)
(* settle in any order, each exactly once.                                 *)
(*                                                                         *)
(* Opacities are written in percent (0.5 is 50).                           *)
(***************************************************************************)
EXTENDS Integers, Sequences, FiniteSets, Bags, TLC

\* ------------------------------------------------------------------ bounds
\* tile loads in flight plus TiledImages in the world, at any one time
MaxLoads == 3
\* number of edits of the base-path input followed in one run
MaxChanges == 1
\* number of $.getJSON requests (mark/unmark) followed in one run
MaxAjax == 2

\* --------------------------------------------------------- configuration
BASE_LAYER == "raw_HE"

\* The head of the fallback channel list: the base layer and one channel.
channelNames == <<BASE_LAYER, "P1_DAPI">>

Channels == {channelNames[i] : i \in 1..Len(channelNames)}

\* channelNames.indexOf(name), 0-based as in JavaScript
indexOf(name) == (CHOOSE i \in 1..Len(channelNames) : channelNames[i] = name) - 1

\* Values the opacity sliders are moved to (min 0, max 1, initial value 0.5).
RangeValues == {0, 50}

\* Opacities a TiledImage can have: a slider value, or 1 (the base layer).
Opacities == RangeValues \cup {100}

\* Options of the blend-mode select; 'source-over' is the initial mode.
BlendModes == {"source-over", "multiply"}

\* Annotation lists a mark response can carry (data.boxes).
BoxLists == {<<>>, <<"cell">>}

\* The value of a property that was never set or was deleted.
undefined == "undefined"

\* layers[name] when no handle is stored
noLayer == 0

VARIABLES
    basePathInput,    \* value of #basePathInput: the number of the edit that set it
    loadingStates,    \* loadingStates[name]: undefined, 'loading', 'loaded', 'error'
    layers,           \* layers[name]: the stored TiledImage, as its position in world, or noLayer
    currentBlendMode, \* currentBlendMode
    world,            \* viewer.world: the TiledImages in draw order (index 0 first), each
                      \* [name, basePath, opacity, compositeOperation]
    pending,          \* bag of the addTiledImage calls whose callback has not run, each
                      \* [name, basePath, opacity, compositeOperation, via, seen]
    chk,              \* .chk[data-key=name] checked property
    rangeVal,         \* .range[data-key=name] value, in percent
    rangeDisabled,    \* .range[data-key=name] disabled property
    isTissueMarked,   \* button_control.js isTissueMarked
    isCellMarked,     \* button_control.js isCellMarked
    CELLS,            \* annotation buffer drawn by the overlay
    tissueButton,     \* #tissueToggle: [active, text]
    cellButton,       \* #cellToggle: [active, text]
    ajax,             \* $.getJSON requests in flight: set of [id, kind]
    nAjax,            \* number of $.getJSON requests issued
    context,          \* the overlay's 2D context: its drawing state, and the calls and
                      \* the outcome of the latest draw callback
    view,             \* a pixel coordinate on its way through goToPixelCoords and
                      \* getCurrentViewInfo
    registry,         \* window.IHC_LAYER_INFO and the channel list built from it
    lastOp            \* the handler or callback that ran last: [op, key]

vars == <<basePathInput, loadingStates, layers, currentBlendMode, world,
          pending, chk, rangeVal, rangeDisabled, isTissueMarked,
          isCellMarked, CELLS, tissueButton, cellButton, ajax, nAjax,
          context, view, registry, lastOp>>

\* The state the functions of part_000 read and write, as one record, so that
\* a handler that calls several functions in sequence is their composition.
Cur ==
    [basePathInput |-> basePathInput, loadingStates |-> loadingStates,
     layers |-> layers, currentBlendMode |-> currentBlendMode, world |-> world,
     pending |-> pending, chk |-> chk,
     rangeVal |-> rangeVal, rangeDisabled |-> rangeDisabled]

Set(s) ==
    /\ basePathInput' = s.basePathInput
    /\ loadingStates' = s.loadingStates
    /\ layers' = s.layers
    /\ currentBlendMode' = s.currentBlendMode
    /\ world' = s.world
    /\ pending' = s.pending
    /\ chk' = s.chk
    /\ rangeVal' = s.rangeVal
    /\ rangeDisabled' = s.rangeDisabled

channelVars == <<basePathInput, loadingStates, layers, currentBlendMode, world,
                 pending, chk, rangeVal, rangeDisabled>>

annotationVars == <<isTissueMarked, isCellMarked, CELLS, tissueButton, cellButton, ajax, nAjax>>

\* What the channel loader and the annotation toggles never touch.
helperVars == <<context, view, registry>>

Min(a, b) == IF a < b THEN a ELSE b

\* Tile loads in flight plus TiledImages in the world.
Live(s) == BagCardinality(s.pending) + Len(s.world)

\* ------------------------------------------------------ the viewer (OSD)
\* viewer.addTiledImage(options): starts a tile-source load.  The options
\* (opacity, compositeOperation, the URL built from the base path) are fixed
\* at the call.  via is the function that called; seen is loadingStates[name]
\* as that function found it.
addTiledImage(s, name, opacity, compositeOperation, via, seen) ==
    [s EXCEPT
        !.pending = @ (+) SetToBag({[name |-> name, opacity |-> opacity,
                                     compositeOperation |-> compositeOperation,
                                     basePath |-> s.basePathInput,
                                     via |-> via, seen |-> seen]})]

\* The viewer creates the TiledImage of load r with the options of the call
\* and adds it on top of the world, then calls options.success.
addItem(s, r) ==
    [s EXCEPT
        !.world = Append(@, [name |-> r.name, basePath |-> r.basePath,
                             opacity |-> r.opacity,
                             compositeOperation |-> r.compositeOperation]),
        !.pending = @ (-) SetToBag({r})]

\* viewer.world.setItemIndex(item, index): the item at position p moves to
\* index (0-based) of the draw order, the last position when index is beyond
\* it.  The handles in layers follow their TiledImages to the new positions.
setItemIndex(s, p, index) ==
    LET rest == [q \in 1..(Len(s.world) - 1) |->
                    IF q < p THEN s.world[q] ELSE s.world[q + 1]]
        i == Min(index, Len(rest))
        moved(q) == IF q = noLayer THEN noLayer
                    ELSE IF q = p THEN i + 1
                    ELSE LET q1 == IF q > p THEN q - 1 ELSE q
                         IN  IF q1 > i THEN q1 + 1 ELSE q1
    IN  [s EXCEPT
            !.world = SubSeq(rest, 1, i) \o <<s.world[p]>> \o SubSeq(rest, i + 1, Len(rest)),
            !.layers = [name \in Channels |-> moved(s.layers[name])]]

\* -------------------------------------------------------- channel loader
preloadChannel(s, name, isBase) ==
    IF s.loadingStates[name] = "loading" \/ s.loadingStates[name] = "loaded"
    THEN s
    ELSE addTiledImage([s EXCEPT !.loadingStates[name] = "loading"],
                       name,
                       IF isBase THEN 100 ELSE 0,
                       IF isBase THEN "source-over" ELSE s.currentBlendMode,
                       "preloadChannel",
                       s.loadingStates[name])

\* preloadChannel's success callback without the call of setItemIndex
preloadSuccess_NoReorder(s, name) ==
    LET s1 == [s EXCEPT !.layers[name] = Len(s.world),
                        !.loadingStates[name] = "loaded"]
    IN  [s1 EXCEPT !.rangeDisabled[name] = FALSE]

\* success callback of preloadChannel, up to resolve(e.item); e.item is the
\* TiledImage the viewer just added, the last of the world
preloadSuccess(s, name) ==
    LET s1 == [s EXCEPT !.layers[name] = Len(s.world),
                        !.loadingStates[name] = "loaded"]
        s2 == setItemIndex(s1, Len(s.world), indexOf(name))
    IN  [s2 EXCEPT !.rangeDisabled[name] = FALSE]

\* error callback of preloadChannel, up to reject(err)
preloadError(s, name) ==
    [s EXCEPT !.loadingStates[name] = "error"]

RECURSIVE preloadOthers(_, _)
\* channelNames.filter(name !== BASE_LAYER).map(name => preloadChannel(name)),
\* from position i of channelNames on
preloadOthers(s, i) ==
    IF i > Len(channelNames) THEN s
    ELSE preloadOthers(IF channelNames[i] # BASE_LAYER
                       THEN preloadChannel(s, channelNames[i], FALSE)
                       ELSE s,
                       i + 1)

\* preloadAllChannels up to its first await: the base layer's load
preloadAllChannels(s) == preloadChannel(s, BASE_LAYER, TRUE)

\* preloadAllChannels after 'await preloadChannel(BASE_LAYER, true)' resolved
preloadAllChannelsResumed(s) == preloadOthers(s, 1)

toggleChannel(s, name, show, opacity) ==
    IF name = BASE_LAYER THEN s
    ELSE IF s.layers[name] # noLayer /\ s.loadingStates[name] = "loaded"
    THEN [s EXCEPT !.world[s.layers[name]].opacity = IF show THEN opacity ELSE 0]
    ELSE IF show
    THEN addTiledImage([s EXCEPT !.loadingStates[name] = "loading"],
                       name, opacity, s.currentBlendMode,
                       "toggleChannel", s.loadingStates[name])
    ELSE s

\* success callback of toggleChannel
toggleSuccess(s, name) ==
    LET s1 == [s EXCEPT !.layers[name] = Len(s.world),
                        !.loadingStates[name] = "loaded"]
        s2 == setItemIndex(s1, Len(s.world), indexOf(name))
    IN  [s2 EXCEPT !.rangeDisabled[name] = FALSE]

\* error callback of toggleChannel
toggleError(s, name) ==
    [s EXCEPT !.loadingStates[name] = "error", !.chk[name] = FALSE]

\* updateBlendMode without the test name !== BASE_LAYER
updateBlendMode_AllLayers(s, blendMode) ==
    [s EXCEPT
        !.currentBlendMode = blendMode,
        !.world = [p \in 1..Len(s.world) |->
                     IF \E name \in Channels :
                            /\ s.layers[name] = p
                            /\ s.loadingStates[name] = "loaded"
                     THEN [s.world[p] EXCEPT !.compositeOperation = blendMode]
                     ELSE s.world[p]]]

updateBlendMode(s, blendMode) ==
    [s EXCEPT
        !.currentBlendMode = blendMode,
        !.world = [p \in 1..Len(s.world) |->
                     IF \E name \in Channels :
                            /\ s.layers[name] = p
                            /\ name # BASE_LAYER
                            /\ s.loadingStates[name] = "loaded"
                     THEN [s.world[p] EXCEPT !.compositeOperation = blendMode]
                     ELSE s.world[p]]]

\* initWorld: empties the world and both maps, rebuilds the control table
\* (base layer checked, sliders at 0.5 and disabled) and starts preloading.
initWorld(s) ==
    preloadAllChannels(
        [s EXCEPT
            !.world = <<>>,
            !.layers = [name \in Channels |-> noLayer],
            !.loadingStates = [name \in Channels |-> undefined],
            !.chk = [name \in Channels |-> name = BASE_LAYER],
            !.rangeVal = [name \in Channels |-> 50],
            !.rangeDisabled = [name \in Channels |-> TRUE]])

\* $('.chk').each(...): every checkbox but the base layer's is unchecked
uncheckOthers(s) ==
    [s EXCEPT !.chk = [name \in Channels |-> IF name # BASE_LAYER THEN FALSE ELSE @[name]]]

\* ------------------------------------------------------ overlay renderer
\* shapes in one annotation list, and vertices in one shape
MaxCells == 2
MaxVertices == 3
\* states context.save() stacked and no restore() took off again
MaxSaved == 1

\* the palette of draw
colors ==
    <<"#a6cee3", "#1f78b4", "#b2df8a", "#33a02c",
      "#fb9a99", "#e31a1c", "#fdbf6f", "#ff7f00", "#cab2d6">>

\* the label colour table: an object literal, so its own properties are these
\* and every other property is looked up in Object.prototype
cellColorMap ==
    [key \in {"bcell", "tumor", "B Cell", "CD163+ Mac", "CD163- Mac",
              "Cancer cell", "DNT", "Dendritic Cell", "Endothelial",
              "Fibroblast", "Mast cell", "NK", "Neu", "Tc", "Th", "Treg",
              "Undefined"} |->
        CASE key = "bcell" -> "#FF0000"
          [] key = "tumor" -> "#00FFFF"
          [] key = "B Cell" -> "#004488"
          [] key = "CD163+ Mac" -> "#FFD700"
          [] key = "CD163- Mac" -> "#009E60"
          [] key = "Cancer cell" -> "#00D4FF"
          [] key = "DNT" -> "#8B2500"
          [] key = "Dendritic Cell" -> "#B03AAC"
          [] key = "Endothelial" -> "#FFC0CB"
          [] key = "Fibroblast" -> "#FFAA00"
          [] key = "Mast cell" -> "#A1DB00"
          [] key = "NK" -> "#0066BB"
          [] key = "Neu" -> "#44C2A5"
          [] key = "Tc" -> "#FF0000"
          [] key = "Th" -> "#FF6666"
          [] key = "Treg" -> "#FF66B3"
          [] key = "Undefined" -> "#EE7700"]

\* Function-valued properties every object literal inherits.
ObjectPrototype ==
    {"constructor", "toString", "toLocaleString", "valueOf", "hasOwnProperty",
     "isPrototypeOf", "propertyIsEnumerable"}

\* An inherited method, as the value a property read returns.
nativeFunction == "function () { [native code] }"

\* cellColorMap[label]: the own property, else the inherited one, else undefined
cellColorMapAt(label) ==
    IF label \in DOMAIN cellColorMap THEN cellColorMap[label]
    ELSE IF label \in ObjectPrototype THEN nativeFunction
    ELSE undefined

RECURSIVE split0(_)
\* label.split('_')[0] of a label given as its characters: the characters
\* before the first '_', as a string
split0(chars) ==
    IF chars = <<>> \/ Head(chars) = "_" THEN ""
    ELSE Head(chars) \o split0(Tail(chars))

\* Labels a mark response can carry: a key of the table with a suffix, a name
\* of no property, a name of an inherited property.
Labels ==
    {<<"T", "c", "_", "1">>, <<"r", "o", "i", "_", "2">>,
     <<"c", "o", "n", "s", "t", "r", "u", "c", "t", "o", "r">>}

\* The i-th vertex of a shape, in viewport pixels.
vertex(i) == [x |-> i, y |-> (i * i) % 5]

\* Vertex lists a mark response can carry: none, a point, a segment, a triangle.
VertexLists == {[i \in 1..n |-> vertex(i)] : n \in 0..MaxVertices}

Cells == [label : Labels, vertices : VertexLists]

\* Annotation lists with shapes to draw (data.boxes of /mark_cell).
CellLists == UNION {[1..n -> Cells] : n \in 0..MaxCells}

\* The 2D context before the first redraw: canvas defaults, nothing saved.
newContext ==
    [globalAlpha |-> 100,
     fillStyle |-> [rgb |-> "#000000", alpha |-> 100],
     strokeStyle |-> "#000000",
     lineWidth |-> 1,
     saved |-> <<>>,      \* the stack of context.save()
     calls |-> <<>>,      \* method calls of the latest draw callback
     color |-> <<>>,      \* the value of color for each shape it visited
     threw |-> FALSE,     \* the latest draw callback ended in a TypeError
     index |-> 0]         \* the index it was called with

\* A method call on the context, for the shape at cellIndex (-1: for none);
\* style is the fill or stroke style the call paints with.
call(cx, op, x, y, style, cellIndex) ==
    [cx EXCEPT !.calls = Append(@, [op |-> op, x |-> x, y |-> y,
                                    style |-> style, cellIndex |-> cellIndex])]

\* hexToRgba(hex, alpha) of a string: the colour of the six hex digits with
\* the given alpha (in percent), black for a string of another length.
hexToRgba(hex, alpha) ==
    IF hex \in {colors[i] : i \in 1..Len(colors)}
               \cup {cellColorMap[key] : key \in DOMAIN cellColorMap}
    THEN [rgb |-> hex, alpha |-> alpha]
    ELSE [rgb |-> "#000000", alpha |-> alpha]

RECURSIVE lineTos(_, _, _, _)
\* for (let i = 1; i < cell.vertices.length; i++) context.lineTo(...)
lineTos(cx, vertices, i, cellIndex) ==
    IF i >= Len(vertices) THEN cx
    ELSE lineTos(call(cx, "lineTo", vertices[i + 1].x, vertices[i + 1].y, "", cellIndex),
                 vertices, i + 1, cellIndex)

\* The body of CELLS.forEach((cell, cellIndex) => ...).  cell.vertices[0] of
\* an empty list is undefined and reading its x throws; hex.startsWith of a
\* value that is no string is undefined and calling it throws.
drawCell(cx, cell, cellIndex) ==
    LET label == split0(cell.label)
        color == IF cellColorMapAt(label) # undefined
                 THEN cellColorMapAt(label)
                 ELSE colors[(cellIndex % Len(colors)) + 1]
        c1 == call([cx EXCEPT !.color = Append(@, color)],
                   "beginPath", 0, 0, "", cellIndex)
        c2 == IF Len(cell.vertices) = 1
              THEN call(c1, "arc", cell.vertices[1].x, cell.vertices[1].y, "", cellIndex)
              ELSE IF Len(cell.vertices) = 0
              THEN [c1 EXCEPT !.threw = TRUE]
              ELSE lineTos(call(c1, "moveTo", cell.vertices[1].x, cell.vertices[1].y,
                                "", cellIndex),
                           cell.vertices, 1, cellIndex)
        c3 == call(c2, "closePath", 0, 0, "", cellIndex)
        c4 == IF color = nativeFunction
              THEN [c3 EXCEPT !.threw = TRUE]
              ELSE [c3 EXCEPT !.fillStyle = hexToRgba(color, 10)]
        c5 == call(c4, "fill", 0, 0, c4.fillStyle.rgb, cellIndex)
        c6 == [c5 EXCEPT !.strokeStyle = color, !.lineWidth = 2]
        c7 == call(c6, "stroke", 0, 0, c6.strokeStyle, cellIndex)
    IN  IF c2.threw THEN c2 ELSE IF c4.threw THEN c4 ELSE c7

RECURSIVE forEach(_, _, _)
\* CELLS.forEach from cellIndex on; an exception ends it
forEach(cx, cells, cellIndex) ==
    IF cellIndex >= Len(cells) \/ cx.threw THEN cx
    ELSE forEach(drawCell(cx, cells[cellIndex + 1], cellIndex), cells, cellIndex + 1)

\* context.save()
save(cx) ==
    call([cx EXCEPT !.saved = Append(@, [globalAlpha |-> cx.globalAlpha,
                                         fillStyle |-> cx.fillStyle,
                                         strokeStyle |-> cx.strokeStyle,
                                         lineWidth |-> cx.lineWidth])],
         "save", 0, 0, "", -1)

\* context.restore()
restore(cx) ==
    LET top == cx.saved[Len(cx.saved)] IN
    call(IF cx.saved = <<>> THEN cx
         ELSE [cx EXCEPT !.saved = SubSeq(@, 1, Len(@) - 1),
                         !.globalAlpha = top.globalAlpha,
                         !.fillStyle = top.fillStyle,
                         !.strokeStyle = top.strokeStyle,
                         !.lineWidth = top.lineWidth],
         "restore", 0, 0, "", -1)

\* The context as a draw callback finds it: no call of its own yet.
called(cx, index) ==
    [cx EXCEPT !.calls = <<>>, !.color = <<>>, !.threw = FALSE, !.index = index]

\* draw without the test of CELLS.length
draw_NoEmptyTest(cx, cells, items, index) ==
    IF index >= Len(items) THEN called(cx, index)
    ELSE LET c1 == [save(called(cx, index)) EXCEPT !.globalAlpha = 30]
             c2 == forEach(c1, cells, 0)
         IN  IF c2.threw THEN c2 ELSE restore(c2)

\* draw({context, index}) with CELLS = cells and viewer.world holding items
draw(cx, cells, items, index) ==
    IF Len(cells) = 0 THEN called(cx, index)
    ELSE IF index >= Len(items) THEN called(cx, index)
    ELSE LET c1 == [save(called(cx, index)) EXCEPT !.globalAlpha = 30]
             c2 == forEach(c1, cells, 0)
         IN  IF c2.threw THEN c2 ELSE restore(c2)

\* ------------------------------------------------------- channel registry
\* panels in one description, and genes in one panel
MaxPanels == 2
MaxGenes == 2

\* The list channelNames is when the page has no description.
fallbackChannelNames ==
    <<BASE_LAYER,
      "P1_DAPI", "P1_CD3E", "P1_MS4A1", "P1_FCER2", "P1_LAMP3", "P1_CR2", "P1_GLYCAM1", "P1_SampleAF",
      "P2_DAPI", "P2_CD274", "P2_ITGAX", "P2_TPSAB1", "P2_HLA-DRA", "P2_CD163", "P2_CD68", "P2_SampleAF",
      "P3_DAPI", "P3_NCAM1", "P3_MPO", "P3_ACTA2", "P3_MKI67", "P3_PECAM1", "P3_PANK1", "P3_SampleAF",
      "P4_DAPI", "P4_CD4", "P4_CD8A", "P4_FOXP3", "P4_PDCD1", "P4_MS4A1", "P4_IL10", "P4_SampleAF">>

\* Property names that are array indices, with their numeric value.
arrayIndex == [key \in {"1", "2"} |-> IF key = "1" THEN 1 ELSE 2]

PanelNames == {"P1", "raw", "1", "2"}

Genes == {"DAPI", "HE"}

\* The value of a panel: a list of genes, or null (list = FALSE).
GeneLists ==
    {[list |-> FALSE, genes |-> <<>>]}
        \cup {[list |-> TRUE, genes |-> g] :
                g \in UNION {[1..n -> Genes] : n \in 0..MaxGenes}}

\* info.genes: the panels in the order the description declares them, each
\* name once.
Panels ==
    {p \in UNION {[1..n -> [panel : PanelNames, value : GeneLists]] : n \in 0..MaxPanels} :
        \A i, j \in 1..Len(p) : p[i].panel = p[j].panel => i = j}

noInfo == [given |-> FALSE, hasGenes |-> FALSE, genes |-> <<>>]

\* window.IHC_LAYER_INFO: absent, without a genes field, or with panels.
Infos ==
    {noInfo, [given |-> TRUE, hasGenes |-> FALSE, genes |-> <<>>]}
        \cup {[given |-> TRUE, hasGenes |-> TRUE, genes |-> p] : p \in Panels}

RECURSIVE ascending(_)
\* The integer-keyed properties in ascending order of their keys.
ascending(properties) ==
    IF properties = {} THEN <<>>
    ELSE LET first == CHOOSE e \in properties :
                        \A f \in properties : arrayIndex[e.panel] <= arrayIndex[f.panel]
         IN  <<first>> \o ascending(properties \ {first})

isString(property) == property.panel \notin DOMAIN arrayIndex

\* Object.entries(panels): the properties whose names are array indices come
\* first, in ascending numeric order, then the others in creation order.
entries(panels) ==
    ascending({panels[i] : i \in {j \in 1..Len(panels) : ~isString(panels[j])}})
        \o SelectSeq(panels, isString)

RECURSIVE pushGenes(_, _, _, _)
\* (genes || []).forEach(g => arr.push(`${panel}_${g}`)), from gene i on
pushGenes(arr, panel, genes, i) ==
    IF i > Len(genes) THEN arr
    ELSE pushGenes(Append(arr, panel \o "_" \o genes[i]), panel, genes, i + 1)

RECURSIVE pushPanels(_, _, _)
\* Object.entries(panels).forEach(([panel, genes]) => ...), from entry i on
pushPanels(arr, list, i) ==
    IF i > Len(list) THEN arr
    ELSE pushPanels(pushGenes(arr, list[i].panel,
                              IF list[i].value.list THEN list[i].value.genes ELSE <<>>, 1),
                    list, i + 1)

\* The function whose value channelNames is, for window.IHC_LAYER_INFO = info.
channelNamesOf(info) ==
    IF ~info.given \/ ~info.hasGenes THEN fallbackChannelNames
    ELSE pushPanels(<<BASE_LAYER>>, entries(info.genes), 1)

\* The registry of a page without a description.
fallbackRegistry ==
    [info |-> noInfo, channelNames |-> fallbackChannelNames, built |-> TRUE]

\* ------------------------------------------------------------- navigation
\* largest image width and height, in pixels
MaxSize == 14
\* significant bits of a floating-point number (JavaScript numbers have 53)
MantissaBits == 6
\* largest binary exponent of a quotient or product below
MaxExponent == 2 * MantissaBits

\* A number is [m, e], m below 2^MantissaBits: the value m / 2^e.
\* The integer nearest to a/b, the even one of two equally near.
roundTiesToEven(a, b) ==
    LET q == a \div b
        r == a % b
    IN  IF 2 * r < b THEN q
        ELSE IF 2 * r > b THEN q + 1
        ELSE IF q % 2 = 0 THEN q ELSE q + 1

\* The floating-point number nearest to a/b, for 0 <= a/b < 2^(MantissaBits-1):
\* the result of the division or multiplication whose exact value is a/b.
fl(a, b) ==
    IF a = 0 THEN [m |-> 0, e |-> 0]
    ELSE LET e == CHOOSE k \in 0..MaxExponent :
                    /\ 2^(MantissaBits - 1) * b <= a * 2^k
                    /\ a * 2^k < 2^MantissaBits * b
             m == roundTiesToEven(a * 2^e, b)
         IN  IF m = 2^MantissaBits THEN [m |-> 2^(MantissaBits - 1), e |-> e - 1]
             ELSE [m |-> m, e |-> e]

\* Math.floor(n)
floor(n) == n.m \div 2^n.e

\* Math.round(n): floor(n + 0.5)
round(n) == (2 * n.m + 2^n.e) \div 2^(n.e + 1)

\* The view of a page that never navigated.
noView ==
    [imgSize |-> [x |-> 1, y |-> 1], pixel |-> [x |-> 0, y |-> 0],
     center |-> [x |-> fl(0, 1), y |-> fl(0, 1)],
     centerPixel |-> [x |-> 0, y |-> 0], step |-> "start"]

\* Image sizes and pixel coordinates within them.
Views ==
    {[noView EXCEPT !.imgSize = [x |-> W, y |-> H], !.pixel = [x |-> x, y |-> y]] :
        W \in 1..MaxSize, H \in 1..MaxSize, x \in 0..MaxSize, y \in 0..MaxSize}

\* goToPixelCoords(x, y): the viewport pans to (x / imgSize.x, y / imgSize.y)
goToPixelCoords(v, x, y) ==
    [v EXCEPT !.pixel = [x |-> x, y |-> y],
              !.center = [x |-> fl(x, v.imgSize.x), y |-> fl(y, v.imgSize.y)],
              !.step = "goTo"]

\* getCurrentViewInfo with Math.floor for Math.round
getCurrentViewInfo_Floor(v) ==
    [v EXCEPT !.centerPixel = [x |-> floor(fl(v.center.x.m * v.imgSize.x, 2^v.center.x.e)),
                               y |-> floor(fl(v.center.y.m * v.imgSize.y, 2^v.center.y.e))],
              !.step = "info"]

\* getCurrentViewInfo().centerPixel, the viewport at rest where it panned to
getCurrentViewInfo(v) ==
    [v EXCEPT !.centerPixel = [x |-> round(fl(v.center.x.m * v.imgSize.x, 2^v.center.x.e)),
                               y |-> round(fl(v.center.y.m * v.imgSize.y, 2^v.center.y.e))],
              !.step = "info"]

\* ------------------------------------------------------------ initial state
\* The page before the scripts ran: nothing loaded, nothing in flight.
blank ==
    [basePathInput |-> 0,
     loadingStates |-> [name \in Channels |-> undefined],
     layers |-> [name \in Channels |-> noLayer],
     currentBlendMode |-> "source-over",
     world |-> <<>>, pending |-> EmptyBag,
     chk |-> [name \in Channels |-> FALSE],
     rangeVal |-> [name \in Channels |-> 50],
     rangeDisabled |-> [name \in Channels |-> TRUE]]

Start(s) ==
    /\ basePathInput = s.basePathInput
    /\ loadingStates = s.loadingStates
    /\ layers = s.layers
    /\ currentBlendMode = s.currentBlendMode
    /\ world = s.world
    /\ pending = s.pending
    /\ chk = s.chk
    /\ rangeVal = s.rangeVal
    /\ rangeDisabled = s.rangeDisabled

\* button_control.js lines 1-2 and the buttons as the page declares them; no
\* request was sent.
unmarked ==
    /\ isTissueMarked = FALSE
    /\ isCellMarked = FALSE
    /\ CELLS = <<>>
    /\ tissueButton = [active |-> FALSE, text |-> "mark tissues"]
    /\ cellButton = [active |-> FALSE, text |-> "mark cells"]
    /\ ajax = {}
    /\ nAjax = 0

\* The state after both scripts ran to their end: initWorld() was called once
\* (part_000 line 536) and the handlers of button_control.js are registered.
\* The page has no description, the overlay never drew, nobody navigated.
Init ==
    /\ Start(initWorld(blank))
    /\ unmarked
    /\ context = newContext
    /\ view = noView
    /\ registry = fallbackRegistry
    /\ lastOp = [op |-> "initWorld", key |-> ""]

\* ----------------------------------------------------- load callbacks
\* The success callback of load r runs.  When the load is the base layer's,
\* resolve(e.item) resumes the preloadAllChannels run awaiting it, in the
\* microtask that follows the callback, before any other event.
successCallback(s, r) ==
    LET s1 == addItem(s, r)
        s2 == IF r.via = "preloadChannel" THEN preloadSuccess(s1, r.name)
                                          ELSE toggleSuccess(s1, r.name)
    IN  IF r.via = "preloadChannel" /\ r.name = BASE_LAYER
        THEN preloadAllChannelsResumed(s2)
        ELSE s2

\* The error callback of load r runs.  reject(err) of the base layer's load
\* ends the preloadAllChannels run awaiting it; the other channels' rejections
\* are caught (lines 431-434).
errorCallback(s, r) ==
    LET s1 == [s EXCEPT !.pending = @ (-) SetToBag({r})] IN
    IF r.via = "preloadChannel" THEN preloadError(s1, r.name)
                                ELSE toggleError(s1, r.name)

LoadSuccess(r) ==
    /\ BagIn(r, pending)
    /\ LET s == successCallback(Cur, r) IN
        /\ Live(s) <= MaxLoads
        /\ Set(s)
    /\ lastOp' = [op |-> "success", key |-> r.name]
    /\ UNCHANGED helperVars
    /\ UNCHANGED annotationVars

LoadError(r) ==
    /\ BagIn(r, pending)
    /\ Set(errorCallback(Cur, r))
    /\ lastOp' = [op |-> "error", key |-> r.name]
    /\ UNCHANGED helperVars
    /\ UNCHANGED annotationVars

\* ------------------------------------------------------------ UI events
\* $(document).on('change', '.chk'): the user flipped the checkbox of key.
chkChange(s, key) ==
    LET s1 == [s EXCEPT !.chk[key] = ~@]
        \* parseFloat(range.val()) || 0.5
        opacity == IF s.rangeVal[key] # 0 THEN s.rangeVal[key] ELSE 50
    IN  IF key = BASE_LAYER THEN s1
        ELSE toggleChannel(s1, key, s1.chk[key], opacity)

CheckboxChange(key) ==
    /\ LET s == chkChange(Cur, key) IN
        /\ Live(s) <= MaxLoads
        /\ Set(s)
    /\ lastOp' = [op |-> "chk", key |-> key]
    /\ UNCHANGED helperVars
    /\ UNCHANGED annotationVars

\* the slider handler without the test loadingStates[key] === 'loaded'
rangeInput_NoStateTest(s, key, val) ==
    LET s1 == [s EXCEPT !.rangeVal[key] = val] IN
    IF s1.layers[key] # noLayer
    THEN [s1 EXCEPT !.world[s1.layers[key]].opacity = val,
                    !.chk[key] = IF val > 0 /\ ~@ THEN TRUE ELSE @]
    ELSE s1

\* $(document).on('input', '.range'): the user moved the slider of key to val.
rangeInput(s, key, val) ==
    LET s1 == [s EXCEPT !.rangeVal[key] = val] IN
    IF s1.layers[key] # noLayer /\ s1.loadingStates[key] = "loaded"
    THEN [s1 EXCEPT !.world[s1.layers[key]].opacity = val,
                    !.chk[key] = IF val > 0 /\ ~@ THEN TRUE ELSE @]
    ELSE s1

\* A disabled slider takes no input; an input event carries a new value.
SliderInput(key, val) ==
    /\ ~rangeDisabled[key]
    /\ val # rangeVal[key]
    /\ Set(rangeInput(Cur, key, val))
    /\ lastOp' = [op |-> "input", key |-> key]
    /\ UNCHANGED helperVars
    /\ UNCHANGED annotationVars

\* $('#blendModeSelect').on('change'): the user selected another option.
BlendModeChange(blendMode) ==
    /\ blendMode # currentBlendMode
    /\ Set(updateBlendMode(Cur, blendMode))
    /\ lastOp' = [op |-> "blend", key |-> ""]
    /\ UNCHANGED helperVars
    /\ UNCHANGED annotationVars

\* The user edited #basePathInput: both registered change handlers run, in
\* the order of their registration (button_control.js lines 5-14, 40-49).
basePathChange(s) ==
    LET s1 == [s EXCEPT !.basePathInput = @ + 1]
        h1 == uncheckOthers(initWorld(s1))
    IN  uncheckOthers(initWorld(h1))

BasePathChange ==
    /\ basePathInput < MaxChanges
    /\ LET s == basePathChange(Cur) IN
        /\ Live(s) <= MaxLoads
        /\ Set(s)
    /\ isTissueMarked' = FALSE
    /\ tissueButton' = [active |-> FALSE, text |-> "mark tissues"]
    /\ isCellMarked' = FALSE
    /\ cellButton' = [active |-> FALSE, text |-> "mark cells"]
    /\ lastOp' = [op |-> "basePath", key |-> ""]
    /\ UNCHANGED helperVars
    /\ UNCHANGED <<CELLS, ajax, nAjax>>

\* ---------------------------------------------------- annotation toggles
\* $('#tissueToggle').on('click'): a mark or an unmark request is sent.
TissueToggleClick ==
    /\ nAjax < MaxAjax
    /\ nAjax' = nAjax + 1
    /\ ajax' = ajax \cup {[id |-> nAjax + 1,
                           kind |-> IF ~isTissueMarked THEN "mark_tissue"
                                                       ELSE "unmark_tissue"]}
    /\ lastOp' = [op |-> "tissueClick", key |-> ""]
    /\ UNCHANGED helperVars
    /\ UNCHANGED <<isTissueMarked, isCellMarked, CELLS, tissueButton, cellButton>>
    /\ UNCHANGED channelVars

\* $('#cellToggle').on('click')
CellToggleClick ==
    /\ nAjax < MaxAjax
    /\ nAjax' = nAjax + 1
    /\ ajax' = ajax \cup {[id |-> nAjax + 1,
                           kind |-> IF ~isCellMarked THEN "mark_cell"
                                                     ELSE "unmark_cell"]}
    /\ lastOp' = [op |-> "cellClick", key |-> ""]
    /\ UNCHANGED helperVars
    /\ UNCHANGED <<isTissueMarked, isCellMarked, CELLS, tissueButton, cellButton>>
    /\ UNCHANGED channelVars

\* The success callback of a $.getJSON request; boxes is data.boxes.
AjaxSuccess(r, boxes) ==
    /\ r \in ajax
    /\ ajax' = ajax \ {r}
    /\ CELLS' = IF r.kind \in {"mark_tissue", "mark_cell"} THEN boxes ELSE <<>>
    /\ IF r.kind \in {"mark_tissue", "unmark_tissue"}
       THEN /\ isTissueMarked' = (r.kind = "mark_tissue")
            /\ tissueButton' = IF r.kind = "mark_tissue"
                               THEN [active |-> TRUE, text |-> "unmark tissues"]
                               ELSE [active |-> FALSE, text |-> "mark tissues"]
            /\ UNCHANGED <<isCellMarked, cellButton>>
       ELSE /\ isCellMarked' = (r.kind = "mark_cell")
            /\ cellButton' = IF r.kind = "mark_cell"
                             THEN [active |-> TRUE, text |-> "unmark cells"]
                             ELSE [active |-> FALSE, text |-> "mark cells"]
            /\ UNCHANGED <<isTissueMarked, tissueButton>>
    /\ lastOp' = [op |-> "ajaxSuccess", key |-> r.kind]
    /\ UNCHANGED helperVars
    /\ UNCHANGED nAjax
    /\ UNCHANGED channelVars

\* a .fail callback that undoes the marks: buffer emptied, flag and button reset
AjaxFail_Reverting(r) ==
    /\ r \in ajax
    /\ ajax' = ajax \ {r}
    /\ CELLS' = <<>>
    /\ IF r.kind \in {"mark_tissue", "unmark_tissue"}
       THEN /\ isTissueMarked' = FALSE
            /\ tissueButton' = [active |-> FALSE, text |-> "mark tissues"]
            /\ UNCHANGED <<isCellMarked, cellButton>>
       ELSE /\ isCellMarked' = FALSE
            /\ cellButton' = [active |-> FALSE, text |-> "mark cells"]
            /\ UNCHANGED <<isTissueMarked, tissueButton>>
    /\ lastOp' = [op |-> "ajaxFail", key |-> r.kind]
    /\ UNCHANGED helperVars
    /\ UNCHANGED nAjax
    /\ UNCHANGED channelVars

\* The .fail callback of a $.getJSON request: it only logs.
AjaxFail(r) ==
    /\ r \in ajax
    /\ ajax' = ajax \ {r}
    /\ lastOp' = [op |-> "ajaxFail", key |-> r.kind]
    /\ UNCHANGED helperVars
    /\ UNCHANGED <<isTissueMarked, isCellMarked, CELLS, tissueButton, cellButton, nAjax>>
    /\ UNCHANGED channelVars

\* A tile load in flight is one of these.
LoadRecords ==
    [name : Channels, opacity : Opacities, compositeOperation : BlendModes,
     basePath : 0..MaxChanges, via : {"preloadChannel", "toggleChannel"},
     seen : {undefined, "loading", "loaded", "error"}]

\* The channel loader and the blend/opacity controller.  The annotation
\* toggles share no variable with them but the flags the base-path handlers
\* reset, so the channel state reachable with and without them is the same.
Next ==
    \/ \E r \in LoadRecords : LoadSuccess(r)
    \/ \E r \in LoadRecords : LoadError(r)
    \/ \E key \in Channels : CheckboxChange(key)
    \/ \E key \in Channels, val \in RangeValues : SliderInput(key, val)
    \/ \E blendMode \in BlendModes : BlendModeChange(blendMode)
    \/ BasePathChange

Spec == Init /\ [][Next]_vars

\* The annotation toggles, with the base-path edits and the tile loads.
NextAnnotations ==
    \/ TissueToggleClick
    \/ CellToggleClick
    \/ \E r \in ajax, boxes \in BoxLists : AjaxSuccess(r, boxes)
    \/ \E r \in ajax : AjaxFail(r)
    \/ BasePathChange
    \/ \E r \in LoadRecords : LoadSuccess(r)
    \/ \E r \in LoadRecords : LoadError(r)

SpecAnnotations == Init /\ [][NextAnnotations]_vars

\* ------------------------------------------------------ overlay redraws
\* The overlay calls onRedraw: draw({context, index}).
Draw(index) ==
    /\ LET cx == draw(context, CELLS, world, index) IN
        /\ Len(cx.saved) <= MaxSaved
        /\ context' = cx
    /\ lastOp' = [op |-> "draw", key |-> ""]
    /\ UNCHANGED <<view, registry>>
    /\ UNCHANGED channelVars
    /\ UNCHANGED annotationVars

\* The overlay renderer, with the cell toggle that fills and empties CELLS
\* and the tile loads that fill the world.
NextOverlay ==
    \/ CellToggleClick
    \/ \E r \in ajax, boxes \in CellLists : AjaxSuccess(r, boxes)
    \/ \E r \in LoadRecords : LoadSuccess(r)
    \/ \E index \in 0..(MaxLoads - 1) : Draw(index)

SpecOverlay == Init /\ [][NextOverlay]_vars

\* ------------------------------------------------- building channelNames
\* The page as part_000 line 257 finds it, with any description.
InitRegistry ==
    /\ Start(blank)
    /\ unmarked
    /\ context = newContext
    /\ view = noView
    /\ registry \in {[info |-> info, channelNames |-> <<>>, built |-> FALSE] : info \in Infos}
    /\ lastOp = [op |-> "blank", key |-> ""]

\* const channelNames = (() => { ... })()
BuildChannelNames ==
    /\ ~registry.built
    /\ registry' = [registry EXCEPT !.channelNames = channelNamesOf(registry.info),
                                    !.built = TRUE]
    /\ lastOp' = [op |-> "channelNames", key |-> ""]
    /\ UNCHANGED <<context, view>>
    /\ UNCHANGED channelVars
    /\ UNCHANGED annotationVars

SpecRegistry == InitRegistry /\ [][BuildChannelNames]_vars

\* ------------------------------------------------------------- go to pixel
\* A page with an image of any size open, and any pixel to go to.
InitView ==
    /\ Start(initWorld(blank))
    /\ unmarked
    /\ context = newContext
    /\ view \in Views
    /\ registry = fallbackRegistry
    /\ lastOp = [op |-> "initWorld", key |-> ""]

GoToPixelCoords ==
    /\ view.step = "start"
    /\ view' = goToPixelCoords(view, view.pixel.x, view.pixel.y)
    /\ lastOp' = [op |-> "goToPixelCoords", key |-> ""]
    /\ UNCHANGED <<context, registry>>
    /\ UNCHANGED channelVars
    /\ UNCHANGED annotationVars

GetCurrentViewInfo ==
    /\ view.step = "goTo"
    /\ view' = getCurrentViewInfo(view)
    /\ lastOp' = [op |-> "getCurrentViewInfo", key |-> ""]
    /\ UNCHANGED <<context, registry>>
    /\ UNCHANGED channelVars
    /\ UNCHANGED annotationVars

NextView ==
    \/ GoToPixelCoords
    \/ GetCurrentViewInfo

SpecView == InitView /\ [][NextView]_vars

\* ------------------------------------------------------------ properties
NonBase == Channels \ {BASE_LAYER}

\* C1: a load request for a channel whose load state is 'loading' or 'loaded'
\* never issues a tile-source load: no load in flight was issued by a caller
\* that found the channel's state 'loading' or 'loaded'.
C1_NoSecondLoad ==
    \A r \in BagToSet(pending) : r.seen \notin {"loading", "loaded"}

\* C2: the base layer, once loaded, has opacity 1 in every reachable state.
C2_BaseLayerOpaque ==
    (loadingStates[BASE_LAYER] = "loaded" /\ layers[BASE_LAYER] # noLayer)
        => world[layers[BASE_LAYER]].opacity = 100

\* C3: no step takes a channel's load state from unloaded directly to loaded
\* or error, from loaded to error, or from error to loaded.
C3_LoadStateTransitions ==
    [][\A name \in Channels :
          /\ ~(loadingStates[name] = undefined /\ loadingStates'[name] \in {"loaded", "error"})
          /\ ~(loadingStates[name] = "loaded" /\ loadingStates'[name] = "error")
          /\ ~(loadingStates[name] = "error" /\ loadingStates'[name] = "loaded")]_vars

\* C4: the last toggle wins: when the last load in flight of a non-base
\* channel succeeds (for the current base path, the channel still 'loading'),
\* the image it loaded is visible (opacity > 0) iff the checkbox is checked.
C4_LastToggleWins ==
    [][\A r \in LoadRecords :
          ( /\ r.name # BASE_LAYER
            /\ r.basePath = basePathInput
            /\ loadingStates[r.name] = "loading"
            /\ LoadSuccess(r)
            /\ \A q \in BagToSet(pending') : q.name # r.name )
          => (world'[layers'[r.name]].opacity > 0 <=> chk'[r.name])]_vars

\* C5: when a non-base channel reaches 'loaded' while a load that a check of
\* its checkbox triggered with opacity v is in flight or completing, the
\* registered layer handle has opacity v.
C5_CheckedOpacityApplied ==
    [][\A name \in NonBase :
          (loadingStates[name] # "loaded" /\ loadingStates'[name] = "loaded")
          => \A r \in BagToSet(pending) :
                (r.name = name /\ r.via = "toggleChannel" /\ r.basePath = basePathInput)
                => world'[layers'[name]].opacity = r.opacity]_vars

\* C6: a slider input for a channel whose load state is not 'loaded' changes
\* no layer's opacity, no load state, no layer handle, no checkbox, and
\* starts no load.
C6_SliderNoOpUnlessLoaded ==
    [][\A key \in Channels, val \in RangeValues :
          (SliderInput(key, val) /\ loadingStates[key] # "loaded")
          => UNCHANGED <<world, loadingStates, layers, chk, pending>>]_vars

\* C6 witness: the slider of a channel that is not loaded was just moved.
C6_Witness ==
    /\ lastOp.op = "input"
    /\ loadingStates[lastOp.key] # "loaded"
    /\ rangeVal[lastOp.key] # 50

\* C7: every non-base channel in state 'loaded' has the current blend mode as
\* its composite operation.
C7_LoadedLayersHaveBlendMode ==
    \A name \in NonBase :
        (loadingStates[name] = "loaded" /\ layers[name] # noLayer)
            => world[layers[name]].compositeOperation = currentBlendMode

\* C8: updateBlendMode(m) records m, sets the composite operation of every
\* loaded non-base layer to m, and leaves the base layer's composite
\* operation ('source-over'), every opacity, load state and handle unchanged.
C8_UpdateBlendModeFrame ==
    [][\A m \in BlendModes :
          BlendModeChange(m)
          => /\ currentBlendMode' = m
             /\ \A name \in NonBase :
                   loadingStates[name] = "loaded"
                   => (layers[name] # noLayer
                       /\ world'[layers[name]].compositeOperation = m)
             /\ layers[BASE_LAYER] # noLayer
                   => world'[layers[BASE_LAYER]].compositeOperation = "source-over"
             /\ Len(world') = Len(world)
             /\ \A p \in 1..Len(world) : world'[p].opacity = world[p].opacity
             /\ UNCHANGED <<loadingStates, layers>>]_vars

\* C8 witness: the blend mode was just changed while the base layer and a
\* non-base layer were loaded; the non-base layer has the new mode.
C8_Witness ==
    /\ lastOp.op = "blend"
    /\ currentBlendMode = "multiply"
    /\ loadingStates[BASE_LAYER] = "loaded"
    /\ \E name \in NonBase :
          /\ loadingStates[name] = "loaded"
          /\ world[layers[name]].compositeOperation = "multiply"

\* C9: a failed load of a non-base channel leaves the state 'error' and the
\* checkbox unchecked; a successful one stores the handle, sets the state
\* 'loaded' and enables the slider.
C9_LoadOutcome ==
    [][\A r \in LoadRecords :
          r.name # BASE_LAYER
          => /\ LoadError(r)
                => (loadingStates'[r.name] = "error" /\ ~chk'[r.name])
             /\ LoadSuccess(r)
                => /\ layers'[r.name] # noLayer
                   /\ loadingStates'[r.name] = "loaded"
                   /\ ~rangeDisabled'[r.name]]_vars

\* C10: no load is issued for a channel in state 'error' but by a check of
\* its checkbox (a base-path change resets the state before it loads).
C10_NoAutomaticRetry ==
    \A r \in BagToSet(pending) : r.seen = "error" => r.via = "toggleChannel"

\* reject(err) of the base layer's load passes through 'await
\* preloadChannel(BASE_LAYER, true)', which no try/catch surrounds, and
\* initWorld drops the promise preloadAllChannels returns: the error callback
\* of the base layer's load ends in an unhandled rejection.
unhandledRejection == lastOp = [op |-> "error", key |-> BASE_LAYER]

\* C11: the failure of a channel's load, the base layer's included, does not
\* leave preloadAllChannels by an unhandled rejection, and once every load
\* has settled every other channel has had its load request.
C11_PreloadFailureNotFatal ==
    /\ ~unhandledRejection
    /\ pending = EmptyBag => \A name \in NonBase : loadingStates[name] # undefined

\* C14: whenever the base layer is loaded, its image is at index 0 of the
\* viewer's draw order, whatever the order the loads completed in and across
\* base-path changes.
C14_BaseLayerAtBottom ==
    loadingStates[BASE_LAYER] = "loaded" => layers[BASE_LAYER] = 1

\* The base layer's load completed after another channel's image was in the
\* world, and its image is below it.
C14_Witness ==
    /\ lastOp = [op |-> "success", key |-> BASE_LAYER]
    /\ loadingStates[BASE_LAYER] = "loaded"
    /\ layers[BASE_LAYER] = 1
    /\ \E p \in 2..Len(world) : world[p].name # BASE_LAYER

\* C20: after a base-path change every handle in layers refers to an image of
\* the current base path, and no image of an old base path is in the viewer:
\* a load started before the change registers nothing when it completes.
C20_NoStaleImage ==
    /\ \A name \in Channels :
          layers[name] # noLayer => world[layers[name]].basePath = basePathInput
    /\ \A p \in 1..Len(world) : world[p].basePath = basePathInput

\* What a mark or unmark request is said to leave alone when it fails.
markState == <<isTissueMarked, isCellMarked, CELLS, tissueButton, cellButton>>

\* The click that sends a request and the .fail callback of a request leave
\* the flags, the buffer and both buttons as they were.
failedRequestChangesNothing ==
    lastOp'.op \in {"tissueClick", "cellClick", "ajaxFail"} => UNCHANGED markState

\* C13 as stated: a failed mark or unmark request leaves the marked flags,
\* CELLS and the buttons' label and active class unchanged, and a flag flips
\* or the buffer changes only in a success callback.
C13_OnlySuccessCallbackFlips ==
    [][/\ failedRequestChangesNothing
       /\ (isTissueMarked' # isTissueMarked \/ isCellMarked' # isCellMarked
            \/ CELLS' # CELLS) => lastOp'.op = "ajaxSuccess"]_vars

\* C13 amended: a failed mark or unmark request leaves the marked flags, CELLS
\* and the buttons unchanged; the buffer changes only in a success callback,
\* and a flag flips only in a success callback or when the base-path handlers
\* reset it.
C13_FailedRequestChangesNothing ==
    [][/\ failedRequestChangesNothing
       /\ CELLS' # CELLS => lastOp'.op = "ajaxSuccess"
       /\ (isTissueMarked' # isTissueMarked \/ isCellMarked' # isCellMarked)
            => lastOp'.op \in {"ajaxSuccess", "basePath"}]_vars

\* An unmark request failed while the tissue marks were shown: they still are.
C13_Witness ==
    /\ lastOp = [op |-> "ajaxFail", key |-> "unmark_tissue"]
    /\ isTissueMarked
    /\ CELLS # <<>>
    /\ tissueButton = [active |-> TRUE, text |-> "unmark tissues"]

\* The calls the latest draw callback made for the shape at cellIndex.
callsFor(cellIndex) ==
    SelectSeq(context.calls, LAMBDA c : c.cellIndex = cellIndex)

\* The names of the calls a shape with these vertices is drawn by: an arc
\* for a point, a closed polygon for several vertices, then fill and stroke.
shapeCalls(vertices) ==
    <<"beginPath">>
        \o (IF Len(vertices) = 1 THEN <<"arc">>
            ELSE IF Len(vertices) = 0 THEN <<>>
            ELSE <<"moveTo">> \o [i \in 1..(Len(vertices) - 1) |-> "lineTo"])
        \o <<"closePath", "fill", "stroke">>

\* C12: draw completes without error for shapes with zero, one or many
\* vertices: after a redraw of a non-empty CELLS over an existing image, with
\* labels whose colour is a colour, no error was raised, the context was
\* restored, and every shape got its calls (arc for one vertex, closed
\* polygon for several), also those after a shape without vertices.
C12_DrawToleratesAnyVertexCount ==
    ( /\ lastOp.op = "draw"
      /\ CELLS # <<>>
      /\ context.index < Len(world)
      /\ \A i \in 1..Len(CELLS) : split0(CELLS[i].label) \notin ObjectPrototype )
    => /\ ~context.threw
       /\ context.calls[Len(context.calls)].op = "restore"
       /\ \A i \in 1..Len(CELLS) :
            LET made == callsFor(i - 1) IN
            [k \in 1..Len(made) |-> made[k].op] = shapeCalls(CELLS[i].vertices)

\* C17: the colour draw uses for the annotation at index i with label L is
\* the table entry of the part of L before the first '_' when that part is a
\* key of the table, and palette[i mod 9] otherwise.
C17_ColourByLabelOrIndex ==
    lastOp.op = "draw" =>
        \A i \in 1..Len(context.color) :
            context.color[i] =
                IF split0(CELLS[i].label) \in DOMAIN cellColorMap
                THEN cellColorMap[split0(CELLS[i].label)]
                ELSE colors[((i - 1) % 9) + 1]

\* The drawing state of the context.
drawingState(cx) ==
    <<cx.globalAlpha, cx.fillStyle, cx.strokeStyle, cx.lineWidth, cx.saved>>

\* C19: a redraw that finds CELLS empty makes no call on the context and
\* leaves its drawing state as it was.
C19_EmptyBufferDrawsNothing ==
    [][(lastOp'.op = "draw" /\ CELLS = <<>>)
        => /\ context'.calls = <<>>
           /\ ~context'.threw
           /\ drawingState(context') = drawingState(context)]_vars

\* A redraw over an existing image found CELLS empty after the marks were
\* removed; the context still has the state an earlier redraw left in it.
C19_Witness ==
    /\ lastOp.op = "draw"
    /\ CELLS = <<>>
    /\ context.index < Len(world)
    /\ context.calls = <<>>
    /\ context.globalAlpha = 30
    /\ context.saved # <<>>

\* The list the description declares: the base layer, then the panels in
\* the order of the description, the genes of each in list order.
declared(info) == pushPanels(<<BASE_LAYER>>, info.genes, 1)

\* C15: channelNames is the base layer followed by '{panel}_{gene}' for the
\* panels in declaration order and the genes in list order; without a
\* description or without its genes field it is the fallback list, which
\* starts with the base layer.
C15_DeclarationOrder ==
    registry.built =>
        /\ registry.channelNames[1] = BASE_LAYER
        /\ registry.channelNames =
              IF registry.info.given /\ registry.info.hasGenes
              THEN declared(registry.info)
              ELSE fallbackChannelNames

\* C16: no name occurs twice in channelNames, for every description and for
\* the fallback list.
C16_ChannelNamesUnique ==
    registry.built =>
        \A i, j \in 1..Len(registry.channelNames) :
            registry.channelNames[i] = registry.channelNames[j] => i = j

\* C18: a pixel coordinate within the image, converted to normalized
\* coordinates by goToPixelCoords and back by getCurrentViewInfo, is itself.
C18_PixelRoundTrip ==
    ( /\ view.step = "info"
      /\ view.pixel.x <= view.imgSize.x
      /\ view.pixel.y <= view.imgSize.y )
    => view.centerPixel = view.pixel

\* A round trip of a pixel whose normalized coordinates were both rounded.
C18_Witness ==
    /\ view.step = "info"
    /\ view.pixel.x <= view.imgSize.x
    /\ view.pixel.y <= view.imgSize.y
    /\ view.center.x.m * view.imgSize.x # view.pixel.x * 2^view.center.x.e
    /\ view.center.y.m * view.imgSize.y # view.pixel.y * 2^view.center.y.e
    /\ view.centerPixel = view.pixel

\* C21: every image in the world is the handle of exactly one channel, and
\* the world holds at most one image per channel: no completion order leaves
\* an image that is drawn and that no control reaches.
C21_NoOrphanedImage ==
    /\ \A p \in 1..Len(world) :
          Cardinality({name \in Channels : layers[name] = p}) = 1
    /\ \A p, q \in 1..Len(world) : world[p].name = world[q].name => p = q

\* The loads in flight for a channel that were started with the current
\* value of the base-path input.
loadsFor(name) ==
    {r \in BagToSet(pending) : r.name = name /\ r.basePath = basePathInput}

RECURSIVE copies(_)
\* How many loads in flight the records of a set stand for.
copies(records) ==
    IF records = {} THEN 0
    ELSE LET r == CHOOSE r \in records : TRUE
         IN  CopiesIn(r, pending) + copies(records \ {r})

\* C22: one change of the base-path input issues exactly one load request
\* for the base layer and at most one for every other channel, although two
\* change handlers are registered.
C22_OneLoadPerBasePathChange ==
    lastOp.op = "basePath" =>
        /\ copies(loadsFor(BASE_LAYER)) = 1
        /\ \A name \in NonBase : copies(loadsFor(name)) <= 1

\* C23: with no mark or unmark request in flight, CELLS is non-empty only if
\* a flag is true; and while a flag stays true the annotations of its mark
\* response stay in CELLS: only a success callback of a mark request of the
\* same toggle replaces them.
C23_AnnotationsAgreeWithFlags ==
    /\ [](ajax = {} /\ CELLS # <<>> => isTissueMarked \/ isCellMarked)
    /\ [][/\ (isTissueMarked /\ isTissueMarked' /\ CELLS' # CELLS)
                => lastOp' = [op |-> "ajaxSuccess", key |-> "mark_tissue"]
          /\ (isCellMarked /\ isCellMarked' /\ CELLS' # CELLS)
                => lastOp' = [op |-> "ajaxSuccess", key |-> "mark_cell"]]_vars

\* C24: a channel has a stored layer handle if and only if its load state is
\* 'loaded'.
C24_HandleIffLoaded ==
    \A name \in Channels :
        layers[name] # noLayer <=> loadingStates[name] = "loaded"

====
